---- MODULE Spec2Model ----
(***************************************************************************)
(* A model of the CLI engine (lib/cli-engine.js): executeOnFiles and its   *)
(* helpers processFile, findIgnoreFiles, executeOnDirectory and            *)
(* executeOnFileOrDirectory, together with the asynchronous events they    *)
(* react to: the fs.stat callback, the "child", "error" and "end" events   *)
(* of the fstream-ignore walker, and the completion of addIgnoreFile.      *)
(***************************************************************************)
EXTENDS Integers, Sequences, FiniteSets, TLC

\* ------------------------------------------------------------------ bounds

\* number of executeOnFiles invocations made on the engine
MaxRuns == 2
\* number of invocations compared with one another on an unchanging disk
MaxPairRuns == 3
\* longest target list handed to executeOnFiles
MaxTargets == 2

\* --------------------------------------------------------- the filesystem

NoTarget == "<none>"
None == "<null>"

FileTargets == {"a.js", "nope.js"}
DirTargets == {"w/p/d1", "q/d3"}
Targets == FileTargets \cup DirTargets

\* stats.isDirectory()
IsDirectory(t) == t \in DirTargets

\* path.resolve(dir, "..")
Parent(dir) == IF dir = "q/d3" THEN "q" ELSE "w/p"

\* the entries of each directory, in the order the walker lists them
Entries(dir) ==
    CASE dir = "w/p/d1" -> <<"w/p/d1/a.js", "w/p/d1/c.txt", "w/p/d1/l.js", "w/p/d1/b.js",
                             "w/p/d1/z.js">>
      [] dir = "q/d3" -> <<"q/d3/g.js">>
      [] OTHER -> <<>>

\* path.extname
extname(p) == IF p = "w/p/d1/c.txt" THEN ".txt" ELSE ".js"

\* the files named .eslintignore found from dir upwards, nearest first
IgnoreFilesAbove(dir) ==
    IF dir = "w/p" THEN <<"w/p/.eslintignore", "w/.eslintignore">> ELSE <<>>

\* the .eslintignore of the directory itself, which the walker reads on its own
LocalIgnoreFiles(dir) == IF dir = "w/p/d1" THEN {"w/p/d1/.eslintignore"} ELSE {}

\* the entries the patterns of an ignore file match
Patterns(f) ==
    CASE f = "w/.eslintignore" -> {"w/p/d1/z.js"}
      [] f = "w/p/d1/.eslintignore" -> {"w/p/d1/l.js"}
      [] f = "custom.ignore" -> {"w/p/d1/b.js"}
      [] OTHER -> {}

\* the files another process may remove while the engine runs
Removable == {"a.js", "w/p/d1/a.js"}

AllFiles ==
    {"a.js"} \cup UNION {{Entries(d)[i] : i \in 1..Len(Entries(d))} : d \in DirTargets}

\* the directories findIgnoreFiles is asked about
ParentDirs == {Parent(t) : t \in DirTargets}

Range(s) == {s[i] : i \in 1..Len(s)}

TargetLists == UNION {[1..n -> Targets] : n \in 0..MaxTargets}

\* a file alone, a directory alone, and the file followed by the directory
PairLists ==
    {<<f>> : f \in FileTargets} \cup {<<d>> : d \in DirTargets}
        \cup {<<f, d>> : f \in FileTargets, d \in DirTargets}

\* ------------------------------------------------------------------ state

VARIABLES
    run,                \* executeOnFiles invocations made so far
    input,              \* the target list as the caller passed it
    files,              \* the caller's array, consumed by next()
    results,            \* executeOnFiles' accumulator
    statOf,             \* the target whose fs.stat is in flight
    walker,             \* the Ignore reader of executeOnDirectory and its closure
    ignoreFileFinder,   \* the module-level FileFinder
    exists,             \* the files on disk
    unreadable,         \* the directories a scan for ignore files fails on
    calls,              \* the invocations of the caller's callback, this run
    cbLog,              \* the invocations of next()'s callback, this run
    missing,            \* indices of the targets fs.stat found missing
    emitted,            \* the walker's child events, this run
    scans,              \* filesystem scans made by findAll, per directory, this run
    queries,            \* findAll queries answered, per directory, this run
    recording,          \* the runs' result lists are kept for comparison
    history,            \* target list -> result list delivered to the caller
    options,            \* this.options of the engine
    skipped,            \* the entries the walker's rules excluded, this run
    linter              \* what processFile did, call after call, this run

vars == <<run, input, files, results, statOf, walker, ignoreFileFinder, exists,
          unreadable, calls, cbLog, missing, emitted, scans, queries, recording, history,
          options, skipped, linter>>

\* position, in input, of the target dispatched last
cur == Len(input) - Len(files)

NoWalker ==
    [state |-> "none", dir |-> NoTarget, idx |-> 0, listed |-> <<>>, todo |-> <<>>,
     results |-> <<>>, rules |-> {}, loading |-> {}, counter |-> 0, n |-> 0,
     pauses |-> 0, resumes |-> 0]

NoFinder == [made |-> FALSE, cache |-> <<>>]

ZeroCount == [d \in ParentDirs |-> 0]

WalkerAlive == walker.state \in {"running", "paused"}

\* nothing of the engine is in flight
Idle == statOf = NoTarget /\ ~WalkerAlive /\ walker.loading = {}

\* ------------------------------------------------------------- processFile

\* eslint.verify: the messages of an existing file
verify(filename) == <<[fatal |-> FALSE, message |-> "lint"]>>

\* one step of processFile on a file; res: what the step returned
Did(op, filename, res) == [op |-> op, file |-> filename, res |-> res]

\* processFile without the eslint.reset() of its first line
processFile_noReset(filename) ==
    LET found == filename \in exists
        result == [filePath |-> filename,
                   messages |-> IF found
                                THEN verify(filename)
                                ELSE <<[fatal |-> TRUE, message |-> "Could not find file"]>>]
    IN  [result |-> result,
         trace |-> <<Did("existsSync", filename, <<found>>)>>
                   \o (IF found
                       THEN <<Did("getConfig", filename, <<>>),
                              Did("verify", filename, <<verify(filename)>>)>>
                       ELSE <<>>)
                   \o <<Did("return", filename, <<result>>)>>]

\* processFile verifying whether or not the file exists
processFile_noExistsCheck(filename) ==
    LET found == filename \in exists
        result == [filePath |-> filename, messages |-> verify(filename)]
    IN  [result |-> result,
         trace |-> <<Did("reset", filename, <<>>),
                     Did("existsSync", filename, <<found>>),
                     Did("getConfig", filename, <<>>),
                     Did("verify", filename, <<verify(filename)>>),
                     Did("return", filename, <<result>>)>>]

\* the Result processFile returns and, in order, what it did: eslint.reset(),
\* fs.existsSync, and when the file exists configHelper.getConfig and
\* eslint.verify, then the return
processFile(filename) ==
    LET found == filename \in exists
        result == [filePath |-> filename,
                   messages |-> IF found
                                THEN verify(filename)
                                ELSE <<[fatal |-> TRUE, message |-> "Could not find file"]>>]
    IN  [result |-> result,
         trace |-> <<Did("reset", filename, <<>>),
                     Did("existsSync", filename, <<found>>)>>
                   \o (IF found
                       THEN <<Did("getConfig", filename, <<>>),
                              Did("verify", filename, <<verify(filename)>>)>>
                       ELSE <<>>)
                   \o <<Did("return", filename, <<result>>)>>]

\* --------------------------------------------------------- findIgnoreFiles

\* FileFinder.prototype.findAll, memoizing per directory; ok: a scan would succeed
findAll(finder, dir, ok) ==
    IF dir \in DOMAIN finder.cache
    THEN [threw |-> FALSE, value |-> finder.cache[dir], finder |-> finder, scanned |-> FALSE]
    ELSE IF ok
         THEN [threw |-> FALSE, value |-> IgnoreFilesAbove(dir),
               finder |-> [finder EXCEPT !.cache = (dir :> IgnoreFilesAbove(dir)) @@ @],
               scanned |-> TRUE]
         ELSE [threw |-> TRUE, value |-> <<>>, finder |-> finder, scanned |-> TRUE]

\* findIgnoreFiles building a new FileFinder at every call
findIgnoreFiles_fresh(dir, ok) == findAll([made |-> TRUE, cache |-> <<>>], dir, ok)

findIgnoreFiles(dir, ok) ==
    findAll(IF ~ignoreFileFinder.made THEN [made |-> TRUE, cache |-> <<>>]
            ELSE ignoreFileFinder, dir, ok)

\* ------------------------------------------------------------- CLIEngine

\* the ignore file an engine may be told to use instead of .eslintignore
CustomIgnoreFile == "custom.ignore"

\* the fields of defaultOptions the walk of a directory could depend on
defaultOptions == [ignore |-> TRUE, ignorePath |-> None]

\* new CLIEngine(o): this.options = assign(Object.create(defaultOptions), o)
CLIEngine(o) == o @@ defaultOptions

\* the options objects an engine is constructed with
OptionChoices ==
    {<<>>, [ignore |-> FALSE], [ignorePath |-> CustomIgnoreFile],
     [ignore |-> FALSE, ignorePath |-> CustomIgnoreFile]}

\* ---------------------------------------------------------- executeOnFiles

\* the caller's callback
callback(inp, cs, err, res, given) ==
    /\ calls' = Append(cs, [err |-> err, res |-> res, given |-> given,
                            at |-> Len(inp) - Len(files')])
    /\ history' = IF given /\ recording THEN (inp :> res) @@ history ELSE history

\* next() of executeOnFiles, on the array fs and the accumulator rs
\* next() dispatching files[0] and leaving it in the array
next_peek(inp, fs, rs, cs) ==
    IF Len(fs) = 0
    THEN /\ files' = fs
         /\ results' = rs
         /\ statOf' = NoTarget
         /\ callback(inp, cs, None, rs, TRUE)
    ELSE /\ files' = fs
         /\ results' = rs
         /\ statOf' = Head(fs)
         /\ calls' = cs
         /\ history' = history

\* next(): the callback when the array is empty, else the dispatch of
\* files.shift()
next(inp, fs, rs, cs) ==
    IF Len(fs) = 0
    THEN /\ files' = fs
         /\ results' = rs
         /\ statOf' = NoTarget
         /\ callback(inp, cs, None, rs, TRUE)
    ELSE /\ files' = Tail(fs)
         /\ results' = rs
         /\ statOf' = Head(fs)
         /\ calls' = cs
         /\ history' = history

\* the callback of next() putting a target's results before the accumulator
engineCb_prepend(idx, err, res) ==
    /\ cbLog' = Append(cbLog, [idx |-> idx, err |-> err, res |-> res])
    /\ IF err # None
       THEN /\ files' = files
            /\ results' = results
            /\ statOf' = NoTarget
            /\ callback(input, calls, err, <<>>, FALSE)
       ELSE next(input, files, res \o results, calls)

\* the callback of next() handing the accumulator over with the error
engineCb_partial(idx, err, res) ==
    /\ cbLog' = Append(cbLog, [idx |-> idx, err |-> err, res |-> res])
    /\ IF err # None
       THEN /\ files' = files
            /\ results' = results
            /\ statOf' = NoTarget
            /\ callback(input, calls, err, results, TRUE)
       ELSE next(input, files, results \o res, calls)

\* the callback next() hands to executeOnFileOrDirectory
engineCb(idx, err, res) ==
    /\ cbLog' = Append(cbLog, [idx |-> idx, err |-> err, res |-> res])
    /\ IF err # None
       THEN /\ files' = files
            /\ results' = results
            /\ statOf' = NoTarget
            /\ callback(input, calls, err, <<>>, FALSE)
       ELSE next(input, files, results \o res, calls)

\* engine.executeOnFiles(ts, callback)
executeOnFiles(ts) ==
    /\ Idle
    /\ run' = run + 1
    /\ input' = ts
    /\ walker' = NoWalker
    /\ cbLog' = <<>>
    /\ missing' = {}
    /\ emitted' = <<>>
    /\ scans' = ZeroCount
    /\ queries' = ZeroCount
    /\ skipped' = {}
    /\ linter' = <<>>
    /\ next(ts, ts, <<>>, <<>>)
    /\ UNCHANGED <<ignoreFileFinder, exists, unreadable, recording, options>>

Call(ts) == run < MaxRuns /\ executeOnFiles(ts)

CallPair(ts) == run < MaxPairRuns /\ executeOnFiles(ts)

\* ------------------------------------------------------ executeOnDirectory

\* the "child" handler: the closure's results after the walker emitted c, and
\* what processFile did
onChild(w, c) ==
    IF extname(c) = ".js"
    THEN [results |-> Append(w.results, processFile(c).result), trace |-> processFile(c).trace]
    ELSE [results |-> w.results, trace |-> <<>>]

\* the addIgnoreFile callback comparing the counter before incrementing it
onIgnoreFile_postIncrement(w, f) ==
    [w EXCEPT !.rules = @ \cup {f},
              !.loading = @ \ {f},
              !.counter = @ + 1,
              !.resumes = IF w.counter = w.n THEN @ + 1 ELSE @,
              !.state = IF w.counter = w.n /\ @ = "paused" THEN "running" ELSE @]

\* the callback of addIgnoreFile resuming the walker at every load
onIgnoreFile_eager(w, f) ==
    [w EXCEPT !.loading = @ \ {f},
              !.rules = @ \cup {f},
              !.counter = @ + 1,
              !.resumes = @ + 1,
              !.state = IF @ = "paused" THEN "running" ELSE @]

\* the callback given to addIgnoreFile, run when file f is loaded and registered
onIgnoreFile(w, f) ==
    [w EXCEPT !.loading = @ \ {f},
              !.rules = @ \cup {f},
              !.counter = @ + 1,
              !.resumes = IF w.counter + 1 = w.n THEN @ + 1 ELSE @,
              !.state = IF w.counter + 1 = w.n /\ @ = "paused" THEN "running" ELSE @]

\* the reader and the closure sharing the accumulator of executeOnFiles
newWalker_shared(dir) ==
    [state |-> "running", dir |-> dir, idx |-> cur,
     listed |-> SelectSeq(Entries(dir), LAMBDA e : e \in exists),
     todo |-> SelectSeq(Entries(dir), LAMBDA e : e \in exists),
     results |-> results, rules |-> LocalIgnoreFiles(dir), loading |-> {},
     counter |-> 0, n |-> 0, pauses |-> 0, resumes |-> 0]

\* new Ignore({path: dir, ignoreFiles: [".eslintignore"]}) and the closure's
\* results and counter; the reader lists the directory as it is now
newWalker(dir) ==
    [state |-> "running", dir |-> dir, idx |-> cur,
     listed |-> SelectSeq(Entries(dir), LAMBDA e : e \in exists),
     todo |-> SelectSeq(Entries(dir), LAMBDA e : e \in exists),
     results |-> <<>>, rules |-> LocalIgnoreFiles(dir), loading |-> {},
     counter |-> 0, n |-> 0, pauses |-> 0, resumes |-> 0]

\* the walker paused whether or not there is an ignore file to load
loadIgnoreFiles_always(w, ignoreFilesInParentDirs) ==
    [w EXCEPT !.state = "paused",
              !.pauses = @ + 1,
              !.loading = Range(ignoreFilesInParentDirs),
              !.n = Len(ignoreFilesInParentDirs)]

\* ignore.pause() and one addIgnoreFile per ancestor ignore file, when there is one
loadIgnoreFiles(w, ignoreFilesInParentDirs) ==
    IF Len(ignoreFilesInParentDirs) # 0
    THEN [w EXCEPT !.state = "paused",
                   !.pauses = @ + 1,
                   !.loading = Range(ignoreFilesInParentDirs),
                   !.n = Len(ignoreFilesInParentDirs)]
    ELSE w

\* executeOnDirectory reporting success as soon as the walk is set up
executeOnDirectory_early(dir) ==
    LET r == findIgnoreFiles(Parent(dir), Parent(dir) \notin unreadable)
        w == newWalker(dir)
    IN  /\ ignoreFileFinder' = r.finder
        /\ scans' = IF r.scanned /\ ~r.threw
                    THEN [scans EXCEPT ![Parent(dir)] = @ + 1] ELSE scans
        /\ queries' = IF ~r.threw THEN [queries EXCEPT ![Parent(dir)] = @ + 1] ELSE queries
        /\ IF r.threw
           THEN /\ walker' = w
                /\ engineCb(cur, "locator", <<>>)
           ELSE /\ walker' = loadIgnoreFiles(w, r.value)
                /\ engineCb(cur, None, w.results)

executeOnDirectory(dir) ==
    LET r == findIgnoreFiles(Parent(dir), Parent(dir) \notin unreadable)
        w == newWalker(dir)
    IN  /\ ignoreFileFinder' = r.finder
        /\ scans' = IF r.scanned /\ ~r.threw
                    THEN [scans EXCEPT ![Parent(dir)] = @ + 1] ELSE scans
        /\ queries' = IF ~r.threw THEN [queries EXCEPT ![Parent(dir)] = @ + 1] ELSE queries
        /\ IF r.threw
           THEN /\ walker' = w
                /\ engineCb(cur, "locator", <<>>)
           ELSE /\ walker' = loadIgnoreFiles(w, r.value)
                /\ statOf' = NoTarget
                /\ UNCHANGED <<files, results, calls, history, cbLog>>

\* ------------------------------------------------ executeOnFileOrDirectory

\* fs.stat called back with an error
StatError ==
    /\ statOf # NoTarget
    /\ UNCHANGED <<run, input, walker, ignoreFileFinder, exists, unreadable, emitted, scans,
                   queries, recording, options, skipped, linter>>
    /\ \E err \in {"ENOENT", "EIO"} :
          /\ err = "ENOENT" <=> (~IsDirectory(statOf) /\ statOf \notin exists)
          /\ engineCb(cur, err, <<>>)
    /\ missing' = IF ~IsDirectory(statOf) /\ statOf \notin exists
                  THEN missing \cup {cur} ELSE missing

\* fs.stat called back with the stats of a file
StatFile ==
    /\ statOf # NoTarget
    /\ UNCHANGED <<run, input, walker, ignoreFileFinder, exists, unreadable, missing, emitted,
                   scans, queries, recording, options, skipped>>
    /\ ~IsDirectory(statOf)
    /\ statOf \in exists
    /\ linter' = linter \o processFile(statOf).trace
    /\ engineCb(cur, None, <<processFile(statOf).result>>)

\* fs.stat called back with the stats of a directory
StatDirectory ==
    /\ statOf # NoTarget
    /\ UNCHANGED <<run, input, exists, unreadable, missing, emitted, recording,
                   options, skipped, linter>>
    /\ IsDirectory(statOf)
    /\ executeOnDirectory(statOf)

\* ------------------------------------------------------- the walker's events

Ignored(w, c) == c \in UNION {Patterns(f) : f \in w.rules}

\* the walker passes over an entry its rules exclude
WalkerSkip ==
    /\ walker.state = "running"
    /\ walker.todo # <<>>
    /\ Ignored(walker, Head(walker.todo))
    /\ walker' = [walker EXCEPT !.todo = Tail(@)]
    /\ skipped' = skipped \cup {Head(walker.todo)}
    /\ UNCHANGED <<run, input, files, results, statOf, ignoreFileFinder, exists, unreadable,
                   calls, cbLog, missing, emitted, scans, queries, recording, options, linter,
                   history>>

\* ignore.on("child")
WalkerChild ==
    /\ walker.state = "running"
    /\ walker.todo # <<>>
    /\ ~Ignored(walker, Head(walker.todo))
    /\ walker' = [walker EXCEPT !.todo = Tail(@),
                                !.results = onChild(walker, Head(walker.todo)).results]
    /\ linter' = linter \o onChild(walker, Head(walker.todo)).trace
    /\ emitted' = Append(emitted, <<walker.idx, Head(walker.todo)>>)
    /\ UNCHANGED <<run, input, files, results, statOf, ignoreFileFinder, exists, unreadable,
                   calls, cbLog, missing, scans, queries, recording, options, skipped,
                   history>>

\* ignore.on("error")
WalkerError ==
    /\ WalkerAlive
    /\ UNCHANGED <<run, input, ignoreFileFinder, exists, unreadable, missing, emitted, scans,
                   queries, recording, options, skipped, linter>>
    /\ walker' = [walker EXCEPT !.state = "errored"]
    /\ engineCb(walker.idx, "walker", <<>>)

\* ignore.on("end")
WalkerEnd ==
    /\ walker.state = "running"
    /\ UNCHANGED <<run, input, ignoreFileFinder, exists, unreadable, missing, emitted, scans,
                   queries, recording, options, skipped, linter>>
    /\ walker.todo = <<>>
    /\ walker' = [walker EXCEPT !.state = "ended"]
    /\ engineCb(walker.idx, None, walker.results)

\* addIgnoreFile(f) completes
IgnoreFileLoaded(f) ==
    /\ f \in walker.loading
    /\ walker' = onIgnoreFile(walker, f)
    /\ UNCHANGED <<run, input, files, results, statOf, ignoreFileFinder, exists, unreadable, calls,
                   cbLog, missing, emitted, scans, queries, recording,
                   options, skipped, linter, history>>

\* another process removes a file while the engine runs
Unlink(f) ==
    /\ ~Idle
    /\ f \in exists
    /\ exists' = exists \ {f}
    /\ UNCHANGED <<run, input, files, results, statOf, walker, ignoreFileFinder,
                   unreadable, calls, cbLog, missing, emitted, scans, queries, recording,
                   options, skipped, linter,
                   history>>

\* another process changes whether a directory can be read; the engine reads a
\* directory's ancestors only in the callback of a stat, so that a change at
\* any other time is the same change made while the stat is in flight
Chmod(d) ==
    /\ statOf # NoTarget
    /\ unreadable' = IF d \in unreadable THEN unreadable \ {d} ELSE unreadable \cup {d}
    /\ UNCHANGED <<run, input, files, results, statOf, walker, ignoreFileFinder, exists,
                   calls, cbLog, missing, emitted, scans, queries, recording,
                   options, skipped, linter, history>>

\* ------------------------------------------------------------ specification

Init ==
    /\ run = 0
    /\ input = <<>>
    /\ files = <<>>
    /\ results = <<>>
    /\ statOf = NoTarget
    /\ walker = NoWalker
    /\ ignoreFileFinder = NoFinder
    /\ exists = AllFiles
    /\ unreadable = {}
    /\ calls = <<>>
    /\ cbLog = <<>>
    /\ missing = {}
    /\ emitted = <<>>
    /\ scans = ZeroCount
    /\ queries = ZeroCount
    /\ history = <<>>
    /\ recording = FALSE
    /\ options = CLIEngine(<<>>)
    /\ skipped = {}
    /\ linter = <<>>

\* the same engine, its runs' result lists kept
InitPairs ==
    /\ run = 0
    /\ input = <<>>
    /\ files = <<>>
    /\ results = <<>>
    /\ statOf = NoTarget
    /\ walker = NoWalker
    /\ ignoreFileFinder = NoFinder
    /\ exists = AllFiles
    /\ unreadable \in SUBSET ParentDirs
    /\ calls = <<>>
    /\ cbLog = <<>>
    /\ missing = {}
    /\ emitted = <<>>
    /\ scans = ZeroCount
    /\ queries = ZeroCount
    /\ history = <<>>
    /\ recording = TRUE
    /\ options = CLIEngine(<<>>)
    /\ skipped = {}
    /\ linter = <<>>

\* an engine constructed with any of the options
InitOptions ==
    /\ run = 0
    /\ input = <<>>
    /\ files = <<>>
    /\ results = <<>>
    /\ statOf = NoTarget
    /\ walker = NoWalker
    /\ ignoreFileFinder = NoFinder
    /\ exists = AllFiles
    /\ unreadable = {}
    /\ calls = <<>>
    /\ cbLog = <<>>
    /\ missing = {}
    /\ emitted = <<>>
    /\ scans = ZeroCount
    /\ queries = ZeroCount
    /\ history = <<>>
    /\ recording = FALSE
    /\ options \in {CLIEngine(o) : o \in OptionChoices}
    /\ skipped = {}
    /\ linter = <<>>

Next ==
    \/ \E ts \in TargetLists : Call(ts)
    \/ StatError
    \/ StatFile
    \/ StatDirectory
    \/ WalkerSkip
    \/ WalkerChild
    \/ WalkerError
    \/ WalkerEnd
    \/ \E f \in walker.loading : IgnoreFileLoaded(f)
    \/ \E f \in Removable : Unlink(f)
    \/ \E d \in ParentDirs : Chmod(d)

Spec == Init /\ [][Next]_vars

\* the engine constructed with options
SpecOptions == InitOptions /\ [][Next]_vars

\* every stat calls back, every addIgnoreFile calls back, and a walker that is
\* not paused goes on to its next entry or its end
Fairness ==
    /\ WF_vars(StatError \/ StatFile \/ StatDirectory)
    /\ WF_vars(\E f \in walker.loading : IgnoreFileLoaded(f))
    /\ WF_vars(WalkerSkip \/ WalkerChild \/ WalkerEnd)

SpecLive == Init /\ [][Next]_vars /\ Fairness

\* runs on a file, on a directory and on both, on a disk that does not change
NextPairs ==
    \/ \E ts \in PairLists : CallPair(ts)
    \/ StatError
    \/ StatFile
    \/ StatDirectory
    \/ WalkerSkip
    \/ WalkerChild
    \/ WalkerError
    \/ WalkerEnd
    \/ \E f \in walker.loading : IgnoreFileLoaded(f)

SpecPairs == InitPairs /\ [][NextPairs]_vars

\* ------------------------------------------------------------- properties

StatErrors == {"ENOENT", "EIO"}

FatalMessages == <<[fatal |-> TRUE, message |-> "Could not find file"]>>

PathsOf(rs) == [i \in 1..Len(rs) |-> rs[i].filePath]

\* the paths of the Results owed for the target at position i of input: the
\* target itself when it is a file, the .js entries the walker emitted for it,
\* in the order of emission, when it is a directory
OwnPaths(i) ==
    IF IsDirectory(input[i])
    THEN LET es == SelectSeq(emitted, LAMBDA e : e[1] = i /\ extname(e[2]) = ".js")
         IN  [k \in 1..Len(es) |-> es[k][2]]
    ELSE <<input[i]>>

RECURSIVE PathsUpTo(_)
PathsUpTo(i) == IF i = 0 THEN <<>> ELSE PathsUpTo(i - 1) \o OwnPaths(i)

\* C1: the caller's callback is invoked exactly once in a run: at most once at
\* any time, and once when nothing of the run is in flight any more.
C1_CallbackExactlyOnce ==
    /\ Len(calls) <= 1
    /\ (run >= 1 /\ Idle) => Len(calls) = 1

\* C2: a file target that is not on disk yields one Result with the target as
\* filePath and a single fatal message, and no error: the callback of next()
\* receives that one-element list for it.
C2_MissingFileYieldsResult ==
    \A k \in 1..Len(cbLog) :
        cbLog[k].idx \in missing =>
            /\ cbLog[k].err = None
            /\ cbLog[k].res = <<[filePath |-> input[cbLog[k].idx],
                                 messages |-> FatalMessages]>>

\* C3: once the dispatch of a target failed, no later target is dispatched and
\* the caller never receives a result list in that run.
C3_AbortOnFirstFailure ==
    \A k \in 1..Len(cbLog) :
        cbLog[k].err # None =>
            /\ cur = cbLog[k].idx
            /\ \A j \in 1..Len(calls) : ~calls[j].given

\* C4: a result list delivered to the caller is the concatenation, in target
\* order, of each target's own Results: one for a file target, and for a
\* directory target those of the .js files in the order the walker emitted them.
C4_ResultsInTargetOrder ==
    \A k \in 1..Len(calls) :
        calls[k].given => PathsOf(calls[k].res) = PathsUpTo(Len(input))

C4_Witness ==
    /\ Len(input) = 2
    /\ ~IsDirectory(input[1])
    /\ IsDirectory(input[2])
    /\ Len(calls) = 1
    /\ calls[1].given
    /\ Len(calls[1].res) = 3

\* C5: in a walk whose locator returned N >= 1 ancestor ignore files, no file
\* is emitted or processed before all N are loaded and registered.
C5_NoResultBeforeBarrier ==
    (/\ walker.n >= 1
     /\ \/ walker.results # <<>>
        \/ \E i \in 1..Len(emitted) : emitted[i][1] = walker.idx)
        => /\ walker.counter = walker.n
           /\ walker.loading = {}
           /\ Range(IgnoreFilesAbove(Parent(walker.dir))) \subseteq walker.rules

C5_Witness ==
    /\ walker.n = 2
    /\ walker.counter = 2
    /\ Len(walker.results) = 2

\* C6: targets are dispatched one at a time in the given order: a stat is in
\* flight only when no walk is, a walk belongs to the target dispatched last,
\* and every earlier target has delivered its terminal success or error.
C6_OneTargetAtATime ==
    /\ statOf # NoTarget => /\ ~WalkerAlive
                            /\ walker.loading = {}
                            /\ cur >= 1
                            /\ statOf = input[cur]
    /\ WalkerAlive => walker.idx = cur
    /\ \A i \in 1..(cur - 1) : \E k \in 1..Len(cbLog) : cbLog[k].idx = i

C6_Witness ==
    /\ cur = 2
    /\ statOf # NoTarget
    /\ walker.state = "ended"
    /\ walker.idx = 1

\* C7: when a target cannot be stat'd the caller's callback gets the stat error
\* for that target and no result list, and no Result of an earlier target is
\* ever delivered in that run.
C7_StatErrorAlone ==
    \A k \in 1..Len(cbLog) :
        cbLog[k].err \in StatErrors =>
            /\ \E j \in 1..Len(calls) :
                  /\ calls[j].err = cbLog[k].err
                  /\ calls[j].at = cbLog[k].idx
            /\ \A j \in 1..Len(calls) : ~calls[j].given /\ calls[j].res = <<>>

C7_Witness ==
    /\ Len(cbLog) = 2
    /\ cbLog[1].err = None
    /\ cbLog[1].res # <<>>
    /\ cbLog[2].err \in StatErrors
    /\ Len(calls) = 1

\* C8: every answer the locator's memo holds was computed during the current
\* invocation: an invocation starts with an empty memo.
C8_MemoScopedToRun ==
    ignoreFileFinder.made =>
        \A d \in DOMAIN ignoreFileFinder.cache : scans[d] >= 1

\* C9: on an unchanging disk the result list of a run on [fileA, dirB] is the
\* result list of a run on [fileA] followed by that of a run on [dirB].
C9_PairIsConcatenation ==
    \A f \in FileTargets, d \in DirTargets :
        {<<f>>, <<d>>, <<f, d>>} \subseteq DOMAIN history =>
            history[<<f, d>>] = history[<<f>>] \o history[<<d>>]

C9_Witness ==
    \E f \in FileTargets, d \in DirTargets :
        /\ {<<f>>, <<d>>, <<f, d>>} \subseteq DOMAIN history
        /\ Len(history[<<f, d>>]) = 3

\* C10: within a run a directory whose answer is in the locator's memo is not
\* scanned again: whatever the number of queries, at most one scan per
\* directory returns an answer (a scan that failed left nothing in the memo).
C10_ScanOncePerRun ==
    \A d \in ParentDirs : scans[d] <= 1 /\ scans[d] <= queries[d]

C10_Witness ==
    \E d \in ParentDirs : queries[d] = 2 /\ scans[d] = 1

\* the errors a directory walk reports to its callback
WalkErrors == {"walker", "locator"}

\* the walk of the directory target at position i has reported an error
WalkFailed(i) == \E k \in 1..Len(cbLog) : cbLog[k].idx = i /\ cbLog[k].err \in WalkErrors

\* the ignore files whose patterns apply to a walk of dir: the local one and
\* those of every ancestor
IgnoreSources(dir) == LocalIgnoreFiles(dir) \cup Range(IgnoreFilesAbove(Parent(dir)))

\* C11: an engine constructed with ignore = false excludes no entry of a
\* directory walk because of a pattern of an ignore file.
C11_IgnoreFalseExcludesNothing ==
    ~options.ignore => skipped = {}

\* C12: an engine constructed with an ignorePath override takes the patterns of
\* its directory walks from that file alone: the walker excludes an entry only
\* for a pattern of the override, and emits no entry the override matches.
C12_IgnorePathReplacesDefault ==
    options.ignorePath # None =>
        /\ skipped \subseteq Patterns(options.ignorePath)
        /\ \A k \in 1..Len(emitted) : emitted[k][2] \notin Patterns(options.ignorePath)

\* C13: once the walk of a directory has reported an error to its callback, no
\* further file is processed for it and it reports no success afterwards.
C13_WalkAbandonedOnError ==
    [][(run' = run /\ WalkFailed(walker.idx)) =>
          /\ linter' = linter
          /\ \A k \in 1..Len(cbLog') :
                 (k > Len(cbLog) /\ cbLog'[k].idx = walker.idx) => cbLog'[k].err # None]_vars

\* C14: the Results a finished walk reports are, one each and in the order of
\* the listing, those of the entries with the .js extension that no pattern of
\* the local or of an ancestor ignore file matches, and no other.
C14_OneResultPerEligibleEntry ==
    walker.state = "ended" =>
        PathsOf(walker.results) =
            SelectSeq(walker.listed,
                      LAMBDA c : /\ extname(c) = ".js"
                                 /\ c \notin UNION {Patterns(f) : f \in IgnoreSources(walker.dir)})

\* C15: the walker is paused only when there is an ancestor ignore file to
\* load, and at most once; it is resumed once, when the last of the n loads
\* completes and not before, in whatever order they complete; once every load
\* has completed it is no longer paused.
C15_PausedUntilLastLoad ==
    /\ walker.pauses = (IF walker.n >= 1 THEN 1 ELSE 0)
    /\ walker.counter = walker.n - Cardinality(walker.loading)
    /\ walker.resumes = (IF walker.n >= 1 /\ walker.counter = walker.n THEN 1 ELSE 0)
    /\ walker.state = "paused" => walker.counter < walker.n

\* both orders of two loads pass through a paused walker with one load done
C15_Witness ==
    /\ walker.n = 2
    /\ walker.counter = 2
    /\ walker.resumes = 1
    /\ walker.state = "running"

\* C16: every verify is preceded by a reset made for the same file, with no
\* verify and no reset for another file between the two.
C16_ResetBeforeEveryVerify ==
    \A i \in 1..Len(linter) :
        linter[i].op = "verify" =>
            \E j \in 1..(i - 1) :
                /\ linter[j] = Did("reset", linter[i].file, <<>>)
                /\ \A k \in (j + 1)..(i - 1) : linter[k].op \notin {"verify", "reset"}

\* a file target and an entry of a directory target verified in one run
C16_Witness ==
    \E i, j \in 1..Len(linter) :
        /\ i < j
        /\ linter[i].op = "verify"
        /\ linter[j].op = "verify"
        /\ linter[i].file \in FileTargets
        /\ linter[j].file \notin FileTargets

\* C17: a processFile that found no file at its path made, after its reset,
\* no other call: it returned next, and returned the Result whose filePath
\* is the path as passed and whose messages are one fatal Message.
C17_MissingPathFatalResult ==
    \A i \in 1..Len(linter) :
        linter[i] = Did("existsSync", linter[i].file, <<FALSE>>) =>
            /\ i > 1
            /\ linter[i - 1] = Did("reset", linter[i].file, <<>>)
            /\ i < Len(linter)
            /\ linter[i + 1] = Did("return", linter[i].file,
                                   <<[filePath |-> linter[i].file,
                                      messages |-> FatalMessages]>>)

\* processFile ran on a path without a file and the walk went on
C17_Witness ==
    /\ \E i \in 1..Len(linter) : linter[i] = Did("existsSync", linter[i].file, <<FALSE>>)
    /\ walker.state = "ended"

C19_ArrayConsumedInPlace ==
    /\ files = SubSeq(input, cur + 1, Len(input))
    /\ statOf # NoTarget => cur >= 1 /\ statOf = input[cur]
    /\ \A k \in 1..Len(calls) :
           /\ calls[k].given => calls[k].at = Len(input)
           /\ calls[k].err # None =>
                  \E j \in 1..Len(cbLog) :
                      cbLog[j].err = calls[k].err /\ cbLog[j].idx = calls[k].at

\* an error received for the first of two targets: the array holds the second
C19_Witness ==
    /\ Len(input) = 2
    /\ Len(calls) = 1
    /\ calls[1].err # None
    /\ calls[1].at = 1
    /\ files = <<input[2]>>

====
